---- MODULE Spec2Model ----
(***************************************************************************)
(* Model of CodePython/main.py: the JobLogger class and execute_job.       *)
(*                                                                         *)
(* One execution of execute_job is a sequence of steps of one process p;   *)
(* processes share the relational store (JobData, JobInstances) and the    *)
(* table store (JobLogs).  Every driver call that can raise has a fault    *)
(* input; the try/except structure of the source decides what a fault      *)
(* does.                                                                   *)
(***************************************************************************)
EXTENDS Integers, Sequences, FiniteSets, TLC

VARIABLES
    ex,          \* ex[p]: the locals of execute_job and the JobLogger of process p
    jobData,     \* committed rows of table JobData; a row's Id is its index
    hasError,    \* ids of the JobInstances rows whose committed HasError is 1
    tableStore,  \* the entities of table JobLogs, in write order
    clock,       \* datetime.utcnow(), in ticks
    uuids,       \* number of values uuid.uuid4() has returned
    budget,      \* number of failures that may still be injected
    runs         \* number of executions of execute_job started so far

vars == <<ex, jobData, hasError, tableStore, clock, uuids, budget, runs>>

----------------------------------------------------------------------------
(* Bounds of the model *)

MaxRuns == 2
MaxFaults == 2
JobFaults == 1
MaxCalls == 3

Procs == {1, 2}

----------------------------------------------------------------------------
(* The environment: content of the relational store that the run only reads,
   and the values the caller passes. *)

\* JobInstance(Id, JobScheduleId): instances 1 and 2 belong to schedule 1,
\* instance 3 names a schedule that has no row.
JobInstanceSchedule(i) == IF i \in {1, 2} THEN 1 ELSE IF i = 3 THEN 9 ELSE 0

\* JobSchedule(Id, JobId): schedule 1 belongs to job 1.
JobScheduleJob(s) == IF s = 1 THEN 1 ELSE 0

\* JobInstances(Id, ...): the rows the error-flag UPDATE can touch.
JobInstancesIds == {1, 2, 3}

JobIdArgs == {0, 1, 2}
InstanceIdArgs == {0, 1, 2, 3}
ScheduleIdArgs == {1}
AgentIdArgs == {7}

DbDescriptor == "Server=db;Database=orchestrator"
TablesDescriptor == "UseDevelopmentStorage=true"

\* Shapes of the app_settings argument.
Blobs == {"absent", "malformed", "nonobject", "no_cs", "no_db", "no_tables", "full"}

WeatherOutcomes == {"ok", "urlerror", "timeout", "malformed", "missing_field"}

----------------------------------------------------------------------------
(* Settings parsing, execute_job lines 193-203 *)

\* A parse without the handler of line 202: malformed JSON escapes.
ParseSettingsNoHandler(blob) ==
    CASE blob = "nonobject" -> [raised |-> "AttributeError", db |-> "", tables |-> ""]
      [] blob = "malformed" -> [raised |-> "JSONDecodeError", db |-> "", tables |-> ""]
      [] blob = "no_db"     -> [raised |-> "none", db |-> "", tables |-> TablesDescriptor]
      [] blob = "no_tables" -> [raised |-> "none", db |-> DbDescriptor, tables |-> ""]
      [] blob = "full"      -> [raised |-> "none", db |-> DbDescriptor, tables |-> TablesDescriptor]
      [] OTHER              -> [raised |-> "none", db |-> "", tables |-> ""]

\* json.loads(app_settings) if app_settings else {} followed by the three
\* .get calls.  Only json.JSONDecodeError is caught: a well-formed JSON value
\* that is not an object has no .get and the AttributeError escapes.
ParseSettings(blob) ==
    CASE blob = "absent"    -> [raised |-> "none", db |-> "", tables |-> ""]
      [] blob = "malformed" -> [raised |-> "none", db |-> "", tables |-> ""]
      [] blob = "nonobject" -> [raised |-> "AttributeError", db |-> "", tables |-> ""]
      [] blob = "no_cs"     -> [raised |-> "none", db |-> "", tables |-> ""]
      [] blob = "no_db"     -> [raised |-> "none", db |-> "", tables |-> TablesDescriptor]
      [] blob = "no_tables" -> [raised |-> "none", db |-> DbDescriptor, tables |-> ""]
      [] blob = "full"      -> [raised |-> "none", db |-> DbDescriptor, tables |-> TablesDescriptor]

----------------------------------------------------------------------------
(* Messages *)

LastRunDesc == "Last Job Run Time"
\* uuid.uuid4(): a value whose first 8 hex digits are hex8 and whose other
\* digits make it the n-th value drawn.  Two values drawn are different
\* values; their first 8 digits may agree.
Uuid4(hex8, n) == [hex8 |-> hex8, tail |-> n]

\* uuid.hex[:8]
Hex8(uuid) == uuid.hex8

\* The first 8 hex digits a drawn uuid may have: as many values as a logger
\* makes calls, so that all its draws may differ and any of them may agree.
Hex8Values == 1..MaxCalls

\* field_desc of an ErrorRecord, line 146: the time stamp, to the second, and
\* the first 8 hex digits of a uuid4
ErrorDesc(now, uuid) == "Error_" \o ToString(now) \o "_" \o ToString(Hex8(uuid))

MsgStarted == "Job started"
MsgFetching == "Fetching weather data for Los Angeles, CA"
MsgCompleted == "Job completed successfully!"
MsgWeather == "Los Angeles, CA - Temperature: 70°F (21°C), Humidity: 50%, Conditions: Sunny"

\* _get_partition_key: f"{job_id}-{job_instance_id}"
PartitionKey(j, i) == ToString(j) \o "-" \o ToString(i)

ExecInfo(j, i, s, a) ==
    "Executing Job ID: " \o ToString(j) \o ", Instance: " \o ToString(i)
        \o ", Schedule: " \o ToString(s) \o ", Agent: " \o ToString(a)

PartitionKeyInfo(j, i) == "Log partition key: " \o ToString(j) \o "-" \o ToString(i)

\* A tick of the clock is a second.
TicksPerMinute == 60

\* datetime.now() - datetime.utcnow(), line 238, in ticks: the offset of the
\* local zone (zone), less the time that passed between the two readings
\* (lag), now() being read first.
LocalOffset(zone, lag) == zone - lag

\* The offsets of the zones the job runs in: UTC, and an hour east of it.
ZoneOffsets == {0, 3600}

\* The time between the two readings of line 238 takes the sum of line 238
\* below a stored value that lies on a tick (lag 1), or does not: the clock
\* gave both readings the same value, or the stored value lies further above
\* its tick than the time that passed (lag 0).
ClockLags == {0, 1}

\* Lines 238-241: the stored UTC value t moved by the offset, cut to the
\* minute by the format of line 240, in the message.
PrevRunMsg(t, offset) ==
    "Previous time the job was run: " \o ToString((t + offset) \div TicksPerMinute)

WeatherErrorMsg(w) ==
    CASE w = "urlerror"      -> "Failed to fetch weather data: connection refused"
      [] w = "timeout"       -> "Error processing weather data: timed out"
      [] w = "malformed"     -> "Error processing weather data: Expecting value"
      [] w = "missing_field" -> "Error processing weather data: 'current_condition'"

StackTrace == "Traceback (most recent call last)"

----------------------------------------------------------------------------
(* Records *)

\* One call the logger or the lifecycle makes on a sink.
Ev(op, arg, msg, ok) == [op |-> op, arg |-> arg, msg |-> msg, ok |-> ok]

\* A row of JobData.
Row(j, desc, str, date) == [JobId |-> j, Desc |-> desc, Str |-> str, Date |-> date]
\* JobDateValue of a row that was given none (NULL), and of no row.
NoDate == -1

NoRow == Row(0, "", "", NoDate)

\* A statement issued on a connection and not yet committed.
Op(op, id, row) == [op |-> op, id |-> id, row |-> row]

ApplyOp(db, o) ==
    CASE o.op = "flag"   -> [db EXCEPT !.hasError = @ \cup ({o.id} \cap JobInstancesIds)]
      [] o.op = "insert" -> [db EXCEPT !.jobData = Append(@, o.row)]
      [] o.op = "update" -> [db EXCEPT !.jobData =
                                [k \in DOMAIN @ |-> IF k = o.id
                                                    THEN [@[k] EXCEPT !.Date = o.row.Date]
                                                    ELSE @[k]]]

\* connection.commit(): the statements of the open transaction become durable.
RECURSIVE Commit(_, _)
Commit(db, ops) ==
    IF ops = <<>> THEN db ELSE Commit(ApplyOp(db, Head(ops)), Tail(ops))

----------------------------------------------------------------------------
(* JobLogger *)

\* The query returning the JobScheduleId column instead of the joined JobId.
GetJobIdWrongColumn(connection, job_instance_id, queryFails) ==
    IF connection = "none" \/ job_instance_id <= 0 THEN 0
    ELSE IF queryFails \/ connection = "closed" THEN 0
    ELSE JobInstanceSchedule(job_instance_id)

\* _get_job_id_from_instance, lines 84-100.  A released connection object is
\* still truthy (line 86), and its cursor() raises into the handler of line 98.
GetJobIdFromInstance(connection, job_instance_id, queryFails) ==
    IF connection = "none" \/ job_instance_id <= 0 THEN 0
    ELSE IF queryFails \/ connection = "closed" THEN 0
    ELSE JobScheduleJob(JobInstanceSchedule(job_instance_id))

\* __init__, lines 30-82.  env: which optional packages are importable and
\* which of the constructor's driver calls fail.
JobLoggerInit(connection_string, job_instance_id, table_connection_string, env) ==
    LET tryConnect == env.has_pyodbc /\ connection_string # ""
        connection == IF tryConnect /\ ~env.connectFails THEN "open" ELSE "none"
        tryTable   == env.has_azure /\ table_connection_string # ""
    IN [connection   |-> connection,
        logger_job_id |-> IF connection = "open"
                          THEN GetJobIdFromInstance(connection, job_instance_id, env.queryFails)
                          ELSE 0,
        table_client |-> IF tryTable /\ ~env.tableFails THEN "open" ELSE "none",
        raised       |-> "none"]

\* The entity both log methods build, lines 114-123 and 161-170.
Entity(lg, action, details, level, rowkey) ==
    [PartitionKey  |-> PartitionKey(lg.logger_job_id, lg.job_instance_id),
     RowKey        |-> rowkey,
     Action        |-> action,
     Details       |-> details,
     Level         |-> level,
     JobId         |-> lg.logger_job_id,
     JobInstanceId |-> lg.job_instance_id]

\* A logger that writes entities whether or not it resolved its job id.
TableEnabledAnyJob(lg) == lg.table_client # "none"

\* The guard of both table-store writes, lines 112 and 158.
TableEnabled(lg) == lg.table_client # "none" /\ lg.logger_job_id > 0

\* A log_progress whose entity write is not guarded: the failure escapes.
LogProgressUnguarded(write, tableFails) ==
    IF write /\ tableFails THEN "TableError" ELSE "none"

\* What log_progress raises, lines 113-126: the handler of line 125 catches
\* whatever create_entity raised, so nothing.
LogProgressRaised(write, tableFails) == "none"

\* log_progress, lines 106-126.  The result names what the call did: the sink
\* calls in order, the entity stored, the uuids drawn, and what it raised.
LogProgress(lg, message, level, tableFails, uuid) ==
    LET write == TableEnabled(lg)
    IN [events   |-> <<Ev("console", level, message, TRUE)>>
                     \o (IF write
                         THEN <<Ev("table", "JobProgress", message, ~tableFails)>>
                         ELSE <<>>),
        entities |-> IF write /\ ~tableFails
                     THEN <<Entity(lg, "JobProgress", message, level, uuid + 1)>>
                     ELSE <<>>,
        uuids    |-> IF write THEN 1 ELSE 0,
        raised   |-> LogProgressRaised(write, tableFails)]

RelationalEnabled(lg) == lg.connection # "none" /\ lg.job_instance_id > 0

\* Whether log_error inserts a JobData row after the flag update, line 145.
ErrorRecordEnabled(lg) == lg.logger_job_id > 0

\* A log_error with one try block around both sinks: a relational failure
\* skips the table-store write.
LogErrorOneTry(lg, sql_fault) == TableEnabled(lg) /\ sql_fault = "none"

\* Whether log_error makes its table-store write, line 158: the relational
\* block has its own handler (line 154), so the statement of that block that
\* raised (sql_fault; "none": no statement did) does not matter.
LogErrorWritesTable(lg, sql_fault) == TableEnabled(lg)

\* close, lines 175-178.  A close that raises leaves it open whether the
\* driver released the connection: `released` is either outcome.  The
\* attribute keeps the connection object after the release, so the test of
\* line 177 passes again and the driver is asked to close a closed connection,
\* which pyodbc answers with ProgrammingError.
CloseLogger(lg, closeFails, released) ==
    IF lg.connection = "none"
    THEN [connection |-> "none", txn |-> lg.txn, events |-> <<>>, raised |-> "none"]
    ELSE IF lg.connection = "closed"
    THEN [connection |-> "closed", txn |-> lg.txn,
          events |-> <<Ev("sql", "close", "", FALSE)>>, raised |-> "ProgrammingError"]
    ELSE [connection |-> IF closeFails /\ ~released THEN lg.connection ELSE "closed",
          txn        |-> IF closeFails /\ ~released THEN lg.txn ELSE <<>>,
          events     |-> <<Ev("sql", "close", "", ~closeFails)>>,
          raised     |-> IF closeFails THEN "CloseError" ELSE "none"]

----------------------------------------------------------------------------
(* execute_job: state of one process *)

NoEnv == [has_pyodbc |-> TRUE, has_azure |-> TRUE, connectFails |-> FALSE,
          queryFails |-> FALSE, tableFails |-> FALSE]

\* A process that has not called execute_job.
Idle ==
    [pc |-> "idle",
     blob |-> "absent", env |-> NoEnv,
     arg_job_id |-> 0, job_id |-> 0, job_instance_id |-> 0,
     job_schedule_id |-> 0, job_agent_id |-> 0,
     connection_string |-> "", table_connection_string |-> "",
     connection |-> "none", logger_job_id |-> 0, table_client |-> "none",
     txn |-> <<>>,          \* statements issued on the connection, not committed
     logs |-> <<>>,         \* the list execute_job returns
     caught |-> "none",     \* the exception the handler of line 289 caught
     exc |-> "none",        \* the exception that is propagating
     row |-> 0,             \* Id fetched by the SELECT of line 301; 0: no row
     current_time |-> 0,    \* line 307
     prev_run_time |-> NoDate,  \* line 236
     ret |-> 0,             \* what the last direct call of a method returned
     calls |-> 0,           \* direct calls of the logger's methods so far
     error_msg |-> "",      \* log_error's message argument
     stack_trace |-> "",    \* log_error's stack_trace argument
     field_desc |-> "",     \* log_error's field_desc, line 146
     sql_fault |-> "none",  \* the statement of log_error's relational block that raised
     resume |-> "idle",     \* where the caller of log_error goes on
     trace |-> <<>>]        \* the sink calls of this execution, in order

Count(b) == IF b THEN 1 ELSE 0

FaultChoices == IF budget > 0 THEN BOOLEAN ELSE {FALSE}

TableFaultChoices(lg) == IF TableEnabled(lg) THEN FaultChoices ELSE {FALSE}

\* The environments that differ in what the constructor does with these
\* descriptors, within the fault budget.
Envs(parse, i) ==
    LET sql == parse.raised = "none" /\ parse.db # ""
        tbl == parse.raised = "none" /\ parse.tables # ""
    IN {e \in [has_pyodbc : BOOLEAN, has_azure : BOOLEAN, connectFails : BOOLEAN,
               queryFails : BOOLEAN, tableFails : BOOLEAN] :
          /\ ~sql => e.has_pyodbc
          /\ ~tbl => e.has_azure
          /\ e.connectFails => sql /\ e.has_pyodbc
          /\ e.queryFails => sql /\ e.has_pyodbc /\ ~e.connectFails /\ i > 0
          /\ e.tableFails => tbl /\ e.has_azure
          /\ Count(e.connectFails) + Count(e.queryFails) + Count(e.tableFails)
                <= budget}

Finished(e) == e.pc \in {"returned", "raised"}

----------------------------------------------------------------------------
(* execute_job, lines 193-209: settings, logger, adoption of the job id *)

BeginWith(p, blob, j, i, s, a, env) ==
    LET parse == ParseSettings(blob)
        lg    == JobLoggerInit(parse.db, i, parse.tables, env)
        base  == [Idle EXCEPT !.blob = blob, !.env = env, !.arg_job_id = j, !.job_id = j,
                              !.job_instance_id = i, !.job_schedule_id = s,
                              !.job_agent_id = a]
    IN /\ runs' = runs + 1
       /\ budget' = budget - Count(env.connectFails) - Count(env.queryFails)
                           - Count(env.tableFails)
       /\ ex' = [ex EXCEPT ![p] =
                    IF parse.raised # "none"
                    THEN [base EXCEPT !.pc = "raised", !.exc = parse.raised]
                    ELSE [base EXCEPT
                            !.pc = "s_started",
                            !.connection_string = parse.db,
                            !.table_connection_string = parse.tables,
                            !.connection = lg.connection,
                            !.logger_job_id = lg.logger_job_id,
                            !.table_client = lg.table_client,
                            !.job_id = IF j <= 0 /\ lg.logger_job_id > 0
                                       THEN lg.logger_job_id ELSE j]]
       /\ UNCHANGED <<jobData, hasError, tableStore, clock, uuids>>

\* The call of a process that has made none, with any arguments.
Begin(p) ==
    /\ ex[p].pc = "idle"
    /\ \E blob \in Blobs, j \in JobIdArgs, i \in InstanceIdArgs,
          s \in ScheduleIdArgs, a \in AgentIdArgs :
           \E env \in Envs(ParseSettings(blob), i) :
               BeginWith(p, blob, j, i, s, a, env)

----------------------------------------------------------------------------
(* execute_job, lines 211-287: the steps inside the try *)

\* A step that logs its message and does not append it to logs.
AfterProgressNoAppend(e, r, msg, to) ==
    IF r.raised # "none"
    THEN [e EXCEPT !.pc = "failed", !.caught = r.raised, !.trace = @ \o r.events]
    ELSE [e EXCEPT !.pc = to, !.trace = @ \o r.events]

\* The state of the process after logger.log_progress(msg, level) returned r
\* in the outer try, followed by logs.append(msg).
AfterProgress(e, r, msg, to) ==
    IF r.raised # "none"
    THEN [e EXCEPT !.pc = "failed", !.caught = r.raised, !.trace = @ \o r.events]
    ELSE [e EXCEPT !.pc = to, !.logs = Append(@, msg), !.trace = @ \o r.events]

\* A step of the outer try that emits one message.  stepFails: a statement of
\* the step raises before the message is emitted.
Emit(p, msg, level, to) ==
    /\ \E stepFails \in FaultChoices :
         IF stepFails
         THEN /\ ex' = [ex EXCEPT ![p].pc = "failed", ![p].caught = "StepError"]
              /\ budget' = budget - 1
              /\ UNCHANGED <<tableStore, uuids>>
         ELSE \E tableFails \in TableFaultChoices(ex[p]) :
                LET r == LogProgress(ex[p], msg, level, tableFails, uuids)
                IN /\ ex' = [ex EXCEPT ![p] = AfterProgress(ex[p], r, msg, to)]
                   /\ tableStore' = tableStore \o r.entities
                   /\ uuids' = uuids + r.uuids
                   /\ budget' = budget - Count(tableFails)
    /\ UNCHANGED <<jobData, hasError, clock, runs>>

StepStarted(p) ==
    /\ ex[p].pc = "s_started"
    /\ Emit(p, MsgStarted, "Info", "s_exec_info")

StepExecInfo(p) ==
    /\ ex[p].pc = "s_exec_info"
    /\ Emit(p, ExecInfo(ex[p].job_id, ex[p].job_instance_id,
                        ex[p].job_schedule_id, ex[p].job_agent_id),
            "Info", "s_partition")

StepPartitionKey(p) ==
    /\ ex[p].pc = "s_partition"
    /\ Emit(p, PartitionKeyInfo(ex[p].job_id, ex[p].job_instance_id), "Info", "s_prev_run")

\* The JobDateValue the SELECT of lines 229-234 can fetch for job j: that of a
\* 'Last Job Run Time' row of j, or none when there is no such row.
PrevRunSelect(rows, j) ==
    LET m == {k \in DOMAIN rows : rows[k].JobId = j /\ rows[k].Desc = LastRunDesc}
    IN IF m = {} THEN {NoDate} ELSE {rows[k].Date : k \in m}

\* Lines 226-236: the SELECT of the previous run time.  What it raises is
\* caught at line 245.
StepPrevRun(p) ==
    LET e == ex[p] IN
    /\ e.pc = "s_prev_run"
    /\ IF e.connection # "none" /\ e.job_id > 0
       THEN \E selectFails \in FaultChoices :
              IF selectFails
              THEN /\ ex' = [ex EXCEPT ![p].pc = "s_fetching",
                                       ![p].trace = Append(@, Ev("sql", "prev_select", "", FALSE))]
                   /\ budget' = budget - 1
              ELSE \E prev_run_time \in PrevRunSelect(jobData, e.job_id) :
                     /\ ex' = [ex EXCEPT ![p].pc = IF prev_run_time # NoDate
                                                   THEN "s_prev_msg" ELSE "s_fetching",
                                         ![p].prev_run_time = prev_run_time,
                                         ![p].trace = Append(@, Ev("sql", "prev_select", "", TRUE))]
                     /\ UNCHANGED budget
       ELSE /\ ex' = [ex EXCEPT ![p].pc = "s_fetching"]
            /\ UNCHANGED budget
    /\ UNCHANGED <<jobData, hasError, tableStore, clock, uuids, runs>>

\* Lines 237-244: the message about the previous run time.  Whatever the
\* block raises is caught at line 245.
StepPrevRunMsg(p) ==
    LET e == ex[p] IN
    /\ e.pc = "s_prev_msg"
    /\ \E tableFails \in TableFaultChoices(e), zone \in ZoneOffsets, lag \in ClockLags :
         LET msg == PrevRunMsg(e.prev_run_time, LocalOffset(zone, lag))
             r   == LogProgress(e, msg, "Info", tableFails, uuids)
         IN /\ ex' = [ex EXCEPT ![p] =
                       [e EXCEPT !.pc = "s_fetching",
                                 !.logs = IF r.raised = "none" THEN Append(@, msg) ELSE @,
                                 !.trace = @ \o r.events]]
            /\ tableStore' = tableStore \o r.entities
            /\ uuids' = uuids + r.uuids
            /\ budget' = budget - Count(tableFails)
    /\ UNCHANGED <<jobData, hasError, clock, runs>>

StepFetching(p) ==
    /\ ex[p].pc = "s_fetching"
    /\ Emit(p, MsgFetching, "Info", "s_weather")

\* Handlers that catch urllib.error.URLError only.
WeatherCaughtUrlErrorOnly(w) == w = "urlerror"

\* The failures of the fetch that the handlers of lines 275 and 280 catch.
WeatherCaught(w) == w \in {"urlerror"} \cup {"timeout", "malformed", "missing_field"}

WeatherLevel(w) == IF w = "ok" THEN "Info" ELSE "Warning"

\* Lines 255-284: the fetch ends as w.
StepWeather(p) ==
    LET e == ex[p] IN
    /\ e.pc = "s_weather"
    /\ \E w \in WeatherOutcomes, tableFails \in TableFaultChoices(e) :
         LET msg == IF w = "ok" THEN MsgWeather ELSE WeatherErrorMsg(w)
             r   == LogProgress(e, msg, WeatherLevel(w), tableFails, uuids)
             \* log_progress(weather_info) raising inside the try is caught at
             \* line 280, whose handler logs again
             msg2 == "Error processing weather data: " \o r.raised
             r2  == LogProgress(e, msg2, "Warning", tableFails, uuids + r.uuids)
         IN /\ budget' = budget - Count(tableFails)
            /\ IF w # "ok" /\ ~WeatherCaught(w)
               THEN /\ ex' = [ex EXCEPT ![p].pc = "failed", ![p].caught = "WeatherError"]
                    /\ UNCHANGED <<tableStore, uuids>>
               ELSE IF w = "ok" /\ r.raised # "none"
               THEN /\ ex' = [ex EXCEPT ![p] =
                                AfterProgress([e EXCEPT !.trace = @ \o r.events],
                                              r2, msg2, "s_completed")]
                    /\ tableStore' = tableStore \o r.entities \o r2.entities
                    /\ uuids' = uuids + r.uuids + r2.uuids
               ELSE /\ ex' = [ex EXCEPT ![p] = AfterProgress(e, r, msg, "s_completed")]
                    /\ tableStore' = tableStore \o r.entities
                    /\ uuids' = uuids + r.uuids
    /\ UNCHANGED <<jobData, hasError, clock, runs>>

StepCompleted(p) ==
    /\ ex[p].pc = "s_completed"
    /\ Emit(p, MsgCompleted, "Info", "finalize")

----------------------------------------------------------------------------
(* execute_job, lines 289-295: the handler of an unhandled step failure *)

ErrorMsg(exception) == "Job execution error: " \o exception

\* log_error(message, stack_trace) up to line 146: the console write, the
\* UPDATE of JobInstances, which stays in the connection's open transaction,
\* and, when the job id is known, the reading of the clock and the drawing of
\* the uuid that make field_desc.  On a released connection cursor() raises
\* (line 135) before any statement is issued.  The clock it reads shows the
\* second of the stamp taken last or the next one.  resume: where the caller
\* goes on when log_error has returned.
LogErrorBegin(p, message, stack_trace, resume) ==
    LET e   == ex[p]
        rel == RelationalEnabled(e)
        b   == [e EXCEPT !.error_msg = message, !.stack_trace = stack_trace,
                         !.resume = resume, !.sql_fault = "none", !.field_desc = ""]
        console == <<Ev("console", "ERROR", message, TRUE)>>
    IN IF ~rel
       THEN /\ ex' = [ex EXCEPT ![p] = [b EXCEPT !.pc = "err_table", !.trace = @ \o console]]
            /\ UNCHANGED <<uuids, budget, clock>>
       ELSE \E flagFails \in (IF e.connection = "closed" THEN {TRUE} ELSE FaultChoices) :
              LET events == console \o <<Ev("sql", "flag", message, ~flagFails)>>
              IN /\ budget' = budget - Count(flagFails /\ e.connection # "closed")
                 /\ IF flagFails
                    THEN /\ ex' = [ex EXCEPT ![p] =
                                     [b EXCEPT !.pc = "err_table", !.sql_fault = "flag",
                                               !.trace = @ \o events]]
                         /\ UNCHANGED <<uuids, clock>>
                    ELSE IF ~ErrorRecordEnabled(e)
                    THEN /\ ex' = [ex EXCEPT ![p] =
                                     [b EXCEPT !.pc = "err_commit",
                                               !.txn = Append(@, Op("flag", e.job_instance_id, NoRow)),
                                               !.trace = @ \o events]]
                         /\ UNCHANGED <<uuids, clock>>
                    ELSE \E hex8 \in Hex8Values, now \in {clock, clock + 1} :
                         /\ ex' = [ex EXCEPT ![p] =
                                     [b EXCEPT !.pc = "err_insert",
                                               !.txn = Append(@, Op("flag", e.job_instance_id, NoRow)),
                                               !.field_desc = ErrorDesc(now, Uuid4(hex8, uuids + 1)),
                                               !.trace = @ \o events]]
                         /\ uuids' = uuids + 1
                         /\ clock' = now

\* Lines 289-292: the handler builds error_msg and the stack trace and calls
\* log_error.
HandleFailure(p) ==
    /\ ex[p].pc = "failed"
    /\ LogErrorBegin(p, ErrorMsg(ex[p].caught), StackTrace, "finalize")
    /\ UNCHANGED <<jobData, hasError, tableStore, runs>>

\* Details of the entity and StringValue of the row, lines 151 and 166.
ErrorDetails(e) ==
    IF e.stack_trace # "" THEN e.error_msg \o "\n" \o e.stack_trace ELSE e.error_msg

\* log_error, lines 147-152: the INSERT into JobData, in the open transaction.
ErrorInsert(p) ==
    LET e == ex[p] IN
    /\ e.pc = "err_insert"
    /\ \E insertFails \in FaultChoices :
         /\ ex' = [ex EXCEPT ![p] =
                     IF insertFails
                     THEN [e EXCEPT !.pc = "err_table", !.sql_fault = "insert",
                                    !.trace = Append(@, Ev("sql", "insert", e.error_msg, FALSE))]
                     ELSE [e EXCEPT !.pc = "err_commit",
                                    !.txn = Append(@, Op("insert", 0,
                                                Row(e.logger_job_id, e.field_desc,
                                                    ErrorDetails(e), NoDate))),
                                    !.trace = Append(@, Ev("sql", "insert", e.error_msg, TRUE))]]
         /\ budget' = budget - Count(insertFails)
    /\ UNCHANGED <<jobData, hasError, tableStore, clock, uuids, runs>>

\* log_error, line 153: the commit.  When it raises, the handler of line 154
\* issues no rollback and the statements stay in the open transaction.
ErrorCommit(p) ==
    LET e == ex[p] IN
    /\ e.pc = "err_commit"
    /\ \E commitFails \in FaultChoices :
         LET db == Commit([jobData |-> jobData, hasError |-> hasError], e.txn)
         IN /\ ex' = [ex EXCEPT ![p] =
                        [e EXCEPT !.pc = "err_table",
                                  !.sql_fault = IF commitFails THEN "commit" ELSE "none",
                                  !.txn = IF commitFails THEN @ ELSE <<>>,
                                  !.trace = Append(@, Ev("sql", "commit", e.error_msg,
                                                         ~commitFails))]]
            /\ jobData' = IF commitFails THEN jobData ELSE db.jobData
            /\ hasError' = IF commitFails THEN hasError ELSE db.hasError
            /\ budget' = budget - Count(commitFails)
    /\ UNCHANGED <<tableStore, clock, uuids, runs>>

\* log_error, lines 157-173: the table-store write, and the return to the
\* caller: the handler of execute_job appends error_msg and re-raises (lines
\* 293-295), a direct caller goes on.
ErrorTable(p) ==
    LET e     == ex[p]
        write == LogErrorWritesTable(e, e.sql_fault)
        back  == IF e.resume = "finalize"
                 THEN [e EXCEPT !.pc = "finalize", !.logs = Append(@, e.error_msg),
                                !.exc = e.caught]
                 ELSE [e EXCEPT !.pc = e.resume, !.exc = "none", !.calls = @ + 1]
    IN
    /\ e.pc = "err_table"
    /\ \E tableFails \in (IF write THEN FaultChoices ELSE {FALSE}) :
         /\ ex' = [ex EXCEPT ![p] =
                     [back EXCEPT !.trace =
                         IF write
                         THEN Append(@, Ev("table", "JobError", e.error_msg, ~tableFails))
                         ELSE @]]
         /\ tableStore' = IF write /\ ~tableFails
                          THEN Append(tableStore,
                                      Entity(e, "JobError", ErrorDetails(e), "Error", uuids + 1))
                          ELSE tableStore
         /\ uuids' = uuids + Count(write)
         /\ budget' = budget - Count(tableFails)
    /\ UNCHANGED <<jobData, hasError, clock, runs>>

----------------------------------------------------------------------------
(* execute_job, lines 296-324: the finally block *)

\* The Ids the SELECT of lines 301-305 can fetch: that of a 'Last Job Run
\* Time' row of job j, or 0 when there is none.
LastRunSelect(rows, j) ==
    LET m == {k \in DOMAIN rows : rows[k].JobId = j /\ rows[k].Desc = LastRunDesc}
    IN IF m = {} THEN {0} ELSE m

\* An upsert that never looks at the fetched row.
LastRunOpAlwaysInsert(row, job_id, current_time) ==
    Op("insert", 0, Row(job_id, LastRunDesc, "", current_time))

\* Lines 309-319: UPDATE the fetched row, or INSERT when none was fetched.
LastRunOp(row, job_id, current_time) ==
    IF row # 0
    THEN Op("update", row, Row(job_id, LastRunDesc, "", current_time))
    ELSE Op("insert", 0, Row(job_id, LastRunDesc, "", current_time))

\* A finally block that records the run only when the try block completed.
LastRunOnSuccessOnly(e) == e.connection # "none" /\ e.job_id > 0 /\ e.exc = "none"

\* Line 298
LastRunEnabled(e) == e.connection # "none" /\ e.job_id > 0

\* Lines 298-305: the lookup of the job's 'Last Job Run Time' row.
FinalizeRead(p) ==
    LET e == ex[p] IN
    /\ e.pc = "finalize"
    /\ IF LastRunEnabled(e)
       THEN \E selectFails \in FaultChoices :
              IF selectFails
              THEN /\ ex' = [ex EXCEPT ![p].pc = "close",
                                       ![p].trace = Append(@, Ev("sql", "lr_select", "", FALSE))]
                   /\ budget' = budget - 1
              ELSE \E row \in LastRunSelect(jobData, e.job_id) :
                     /\ ex' = [ex EXCEPT ![p].pc = "fin_clock",
                                         ![p].row = row,
                                         ![p].trace = Append(@, Ev("sql", "lr_select", "", TRUE))]
                     /\ UNCHANGED budget
       ELSE /\ ex' = [ex EXCEPT ![p].pc = "close"]
            /\ UNCHANGED budget
    /\ UNCHANGED <<jobData, hasError, tableStore, clock, uuids, runs>>

\* Line 307: current_time = datetime.utcnow().  The clock it reads shows the
\* second of the stamp taken last or the next one.
FinalizeClock(p) ==
    /\ ex[p].pc = "fin_clock"
    /\ \E now \in {clock, clock + 1} :
         /\ ex' = [ex EXCEPT ![p].pc = "fin_write", ![p].current_time = now]
         /\ clock' = now
    /\ UNCHANGED <<jobData, hasError, tableStore, uuids, budget, runs>>

\* Lines 309-322: the write and its commit.  fault names the call that raises.
FinalizeWrite(p) ==
    LET e == ex[p] IN
    /\ e.pc = "fin_write"
    /\ \E fault \in {"none"} \cup (IF budget > 0 THEN {"write", "commit"} ELSE {}) :
         LET op     == LastRunOp(e.row, e.job_id, e.current_time)
             issued == IF fault = "write" THEN e.txn ELSE Append(e.txn, op)
             db     == Commit([jobData |-> jobData, hasError |-> hasError],
                              IF fault = "none" THEN issued ELSE <<>>)
         IN /\ ex' = [ex EXCEPT ![p] =
                        [e EXCEPT !.pc = "close",
                                  !.txn = IF fault = "none" THEN <<>> ELSE issued,
                                  !.trace = @ \o <<Ev("sql", "lr_" \o op.op, "", fault # "write")>>
                                              \o (IF fault = "write" THEN <<>>
                                                  ELSE <<Ev("sql", "lr_commit", "", fault = "none")>>)]]
            /\ jobData' = db.jobData
            /\ hasError' = db.hasError
            /\ budget' = budget - Count(fault # "none")
    /\ UNCHANGED <<tableStore, clock, uuids, runs>>

\* Line 324, then the return of line 326 or the propagation of what is raised.
Close(p) ==
    LET e == ex[p] IN
    /\ e.pc = "close"
    /\ \E closeFails \in (IF e.connection # "none" THEN FaultChoices ELSE {FALSE}) :
         \E released \in (IF closeFails THEN BOOLEAN ELSE {TRUE}) :
           LET r   == CloseLogger(e, closeFails, released)
               exc == IF r.raised # "none" THEN r.raised ELSE e.exc
           IN /\ ex' = [ex EXCEPT ![p] =
                          [e EXCEPT !.pc = IF exc # "none" THEN "raised" ELSE "returned",
                                    !.exc = exc,
                                    !.connection = r.connection,
                                    !.txn = r.txn,
                                    !.trace = @ \o r.events]]
              /\ budget' = budget - Count(closeFails)
    /\ UNCHANGED <<jobData, hasError, tableStore, clock, uuids, runs>>

----------------------------------------------------------------------------
(* Specifications *)

\* What an earlier execution for job 1 left in the relational store: its
\* 'Last Job Run Time' row, written at tick 1.
PriorStore == <<Row(1, LastRunDesc, "", 1)>>

Init ==
    /\ ex = [p \in Procs |-> Idle]
    /\ \/ jobData = <<>> /\ clock = 0
       \/ jobData = PriorStore /\ clock = 1
    /\ hasError = {}
    /\ tableStore = <<>>
    /\ uuids = 0
    /\ budget = MaxFaults
    /\ runs = 0

Step(p) ==
    \/ StepStarted(p)
    \/ StepExecInfo(p)
    \/ StepPartitionKey(p)
    \/ StepPrevRun(p)
    \/ StepPrevRunMsg(p)
    \/ StepFetching(p)
    \/ StepWeather(p)
    \/ StepCompleted(p)
    \/ HandleFailure(p)
    \/ ErrorInsert(p)
    \/ ErrorCommit(p)
    \/ ErrorTable(p)
    \/ FinalizeRead(p)
    \/ FinalizeClock(p)
    \/ FinalizeWrite(p)
    \/ Close(p)

\* One execution of execute_job, with any arguments and any failures.
Next == Begin(1) \/ Step(1)

Spec == Init /\ [][Next]_vars

\* Executions of one job: both stores configured and reachable, the job id
\* passed by the caller or resolved from one of the job's two instances.
BeginJob(p) ==
    /\ ex[p].pc = "idle" \/ Finished(ex[p])
    /\ runs < MaxRuns
    /\ \E j \in {0, 1}, i \in {1, 2} :
         BeginWith(p, "no_tables", j, i, 1, 7, NoEnv)

InitJobs ==
    /\ ex = [p \in Procs |-> Idle]
    /\ jobData = <<>>
    /\ clock = 0
    /\ hasError = {}
    /\ tableStore = <<>>
    /\ uuids = 0
    /\ budget = JobFaults
    /\ runs = 0

\* Executions one after the other, by one process.
NextSeq == BeginJob(1) \/ Step(1)

SpecSeq == InitJobs /\ [][NextSeq]_vars

\* Two processes, each with its own connection, whose steps interleave.
NextConc == \E p \in Procs : BeginJob(p) \/ Step(p)

SpecConc == InitJobs /\ [][NextConc]_vars

----------------------------------------------------------------------------
(* JobLogger used directly: its methods called in any order *)

\* JobLogger(connection_string, job_instance_id, table_connection_string)
LoggerNew(p) ==
    /\ ex[p].pc = "idle"
    /\ \E cs \in {"", DbDescriptor}, tcs \in {"", TablesDescriptor}, i \in InstanceIdArgs :
         \E env \in Envs([raised |-> "none", db |-> cs, tables |-> tcs], i) :
           LET lg == JobLoggerInit(cs, i, tcs, env)
           IN /\ ex' = [ex EXCEPT ![p] =
                          [Idle EXCEPT !.pc = "logger", !.env = env,
                                       !.job_instance_id = i,
                                       !.connection_string = cs,
                                       !.table_connection_string = tcs,
                                       !.connection = lg.connection,
                                       !.logger_job_id = lg.logger_job_id,
                                       !.table_client = lg.table_client,
                                       !.ret = lg.logger_job_id,
                                       !.exc = lg.raised]]
              /\ budget' = budget - Count(env.connectFails) - Count(env.queryFails)
                                  - Count(env.tableFails)
    /\ UNCHANGED <<jobData, hasError, tableStore, clock, uuids, runs>>

LoggerReady(p) == ex[p].pc = "logger" /\ ex[p].calls < MaxCalls

\* logger.log_progress("progress", "Info")
LoggerLogProgress(p) ==
    LET e == ex[p] IN
    /\ LoggerReady(p)
    /\ \E tableFails \in TableFaultChoices(e) :
         LET r == LogProgress(e, "progress", "Info", tableFails, uuids)
         IN /\ ex' = [ex EXCEPT ![p] =
                        [e EXCEPT !.calls = @ + 1, !.exc = r.raised,
                                  !.trace = @ \o r.events]]
            /\ tableStore' = tableStore \o r.entities
            /\ uuids' = uuids + r.uuids
            /\ budget' = budget - Count(tableFails)
    /\ UNCHANGED <<jobData, hasError, clock, runs>>

\* logger.log_error("error", stack_trace)
LoggerLogError(p) ==
    /\ LoggerReady(p)
    /\ \E stack_trace \in {"", StackTrace} :
         LogErrorBegin(p, "error", stack_trace, "logger")
    /\ UNCHANGED <<jobData, hasError, tableStore, runs>>

\* The direct call of log_error goes on and returns.
LoggerLogErrorStep(p) ==
    /\ ex[p].resume = "logger"
    /\ ErrorInsert(p) \/ ErrorCommit(p) \/ ErrorTable(p)

\* logger._get_job_id_from_instance()
LoggerGetJobId(p) ==
    LET e == ex[p] IN
    /\ LoggerReady(p)
    /\ \E queryFails \in (IF e.connection = "open" /\ e.job_instance_id > 0
                          THEN FaultChoices ELSE {FALSE}) :
         /\ ex' = [ex EXCEPT ![p] =
                     [e EXCEPT !.calls = @ + 1, !.exc = "none",
                               !.ret = GetJobIdFromInstance(e.connection, e.job_instance_id,
                                                            queryFails)]]
         /\ budget' = budget - Count(queryFails)
    /\ UNCHANGED <<jobData, hasError, tableStore, clock, uuids, runs>>

\* logger.close()
LoggerClose(p) ==
    LET e == ex[p] IN
    /\ LoggerReady(p)
    /\ \E closeFails \in (IF e.connection = "open" THEN FaultChoices ELSE {FALSE}) :
         \E released \in (IF closeFails THEN BOOLEAN ELSE {TRUE}) :
           LET r == CloseLogger(e, closeFails, released)
           IN /\ ex' = [ex EXCEPT ![p] =
                          [e EXCEPT !.calls = @ + 1, !.exc = r.raised,
                                    !.connection = r.connection,
                                    !.txn = r.txn,
                                    !.trace = @ \o r.events]]
              /\ budget' = budget - Count(closeFails)
    /\ UNCHANGED <<jobData, hasError, tableStore, clock, uuids, runs>>

\* One logger, constructed with any arguments, then used by its caller.
NextLogger ==
    \/ LoggerNew(1)
    \/ LoggerLogProgress(1)
    \/ LoggerLogError(1)
    \/ LoggerLogErrorStep(1)
    \/ LoggerGetJobId(1)
    \/ LoggerClose(1)

SpecLogger == InitJobs /\ [][NextLogger]_vars

\* One logger whose caller resolves the job id again and closes the logger,
\* in any order.
NextResolve ==
    \/ LoggerNew(1)
    \/ LoggerGetJobId(1)
    \/ LoggerClose(1)

SpecResolve == InitJobs /\ [][NextResolve]_vars

----------------------------------------------------------------------------
(* Properties *)

Contains(seq, x) == \E k \in DOMAIN seq : seq[k] = x

\* Positions in the trace of e of the sink calls op/arg.
Calls(e, op, arg) == {k \in DOMAIN e.trace : e.trace[k].op = op /\ e.trace[k].arg = arg}

\* The sink calls a step of process p adds to its trace.
NewCalls(p) == SubSeq(ex'[p].trace, Len(ex[p].trace) + 1, Len(ex'[p].trace))

\* The premise of C2 and C8: jobId > 0 and a connection is held.
JobAndConnection(e) == e.job_id > 0 /\ e.connection # "none"

\* C1: when execute_job has returned or raised, the relational connection and
\* the table-store client it acquired have both been released.
C1_ReleasedOnExit ==
    \A p \in Procs :
        Finished(ex[p]) => ex[p].connection # "open" /\ ex[p].table_client # "open"

\* C2: when a step of the try block raised an unhandled failure, log_error was
\* called exactly once, the last-run-time update was performed in the finally
\* block (when jobId > 0 and a connection is held), and what the caller
\* receives, after the finally block, is that original failure.
C2_StepFailurePropagates ==
    \A p \in Procs :
        (Finished(ex[p]) /\ ex[p].caught # "none")
            => /\ Cardinality(Calls(ex[p], "console", "ERROR")) = 1
               /\ JobAndConnection(ex[p]) => Calls(ex[p], "sql", "lr_select") # {}
               /\ Calls(ex[p], "sql", "lr_select") \cup Calls(ex[p], "sql", "close") # {}
                    => \A k \in Calls(ex[p], "console", "ERROR") :
                         \A n \in Calls(ex[p], "sql", "lr_select") \cup Calls(ex[p], "sql", "close") :
                            k < n
               /\ ex[p].pc = "raised"
               /\ ex[p].exc = ex[p].caught

\* C3: a failure of a sink operation never changes what the caller sees: an
\* execution whose steps all succeeded returns, and one with an unhandled
\* step failure raises that failure.
C3_SinkFailuresSwallowed ==
    \A p \in Procs :
        (Finished(ex[p]) /\ ParseSettings(ex[p].blob).raised = "none")
            => IF ex[p].caught = "none"
               THEN ex[p].pc = "returned" /\ ex[p].exc = "none"
               ELSE ex[p].pc = "raised" /\ ex[p].exc = ex[p].caught

\* The sink calls of the last call of log_error that e made.
LogErrorCalls(e) ==
    LET from == CHOOSE k \in Calls(e, "console", "ERROR") :
                    \A m \in Calls(e, "console", "ERROR") : m <= k
    IN SubSeq(e.trace, from, Len(e.trace))

\* C4: a call of log_error writes to the console first, then makes the
\* relational write exactly when a connection is held and jobInstanceId > 0,
\* then makes the table-store write exactly when a table client is present
\* and jobId > 0, whether or not the relational write failed; and it returns
\* to the handler, which appends the message and re-raises what it caught.
C4_LogErrorReachesEverySink ==
    [][\A p \in Procs :
          (ex[p].pc = "err_table" /\ ex'[p].pc # "err_table")
              => LET new == LogErrorCalls(ex'[p])
                     sql == {k \in DOMAIN new : new[k].op = "sql"}
                     tbl == {k \in DOMAIN new : new[k].op = "table"}
                 IN /\ Len(new) >= 1
                    /\ new[1].op = "console" /\ new[1].arg = "ERROR"
                    /\ \A k \in DOMAIN new : k > 1 => new[k].op # "console"
                    /\ (ex[p].connection # "none" /\ ex[p].job_instance_id > 0)
                          <=> (\E k \in sql : new[k].arg = "flag")
                    /\ (ex[p].table_client # "none" /\ ex[p].logger_job_id > 0) <=> tbl # {}
                    /\ Cardinality(tbl) <= 1
                    /\ \A k \in sql, n \in tbl : k < n
                    /\ \A n \in tbl : new[n].arg = "JobError"
                    /\ ex'[p].pc = "finalize"
                    /\ ex'[p].exc = ex[p].caught
                    /\ ex'[p].logs = Append(ex[p].logs, ErrorMsg(ex[p].caught))]_vars

\* C4 witness: log_error's relational write failed and its table-store write
\* was made after it.
C4_Witness ==
    \E p \in Procs : \E k, n \in DOMAIN ex[p].trace :
        /\ k < n
        /\ ex[p].trace[k].op = "sql" /\ ex[p].trace[k].arg \in {"flag", "insert", "commit"}
        /\ ~ex[p].trace[k].ok
        /\ ex[p].trace[n].op = "table" /\ ex[p].trace[n].arg = "JobError"

\* C5: log_progress never raises: nothing but a step's own failure reaches
\* the handler of the try block, and after every call of log_progress,
\* whatever the state of the table-store sink, the caller went on to record
\* the message in its log.
C5_LogProgressNeverRaises ==
    \A p \in Procs :
        /\ ex[p].caught \in {"none", "StepError"}
        /\ \A k \in DOMAIN ex[p].trace :
             (ex[p].trace[k].op = "console" /\ ex[p].trace[k].arg # "ERROR")
                 => Contains(ex[p].logs, ex[p].trace[k].msg)

\* C5 witness: an entity write of log_progress failed and the execution went
\* on to return.
C5_Witness ==
    \E p \in Procs :
        /\ ex[p].pc = "returned"
        /\ \E k \in Calls(ex[p], "table", "JobProgress") : ~ex[p].trace[k].ok

\* Ids of the 'Last Job Run Time' rows of job j.
LastRunRows(rows, j) ==
    {k \in DOMAIN rows : rows[k].JobId = j /\ rows[k].Desc = LastRunDesc}

\* C6: the relational store never holds more than one 'Last Job Run Time'
\* row of a job, also when the finally blocks of two executions interleave.
C6_OneRunRecordPerJob ==
    \A j \in JobIdArgs : Cardinality(LastRunRows(jobData, j)) <= 1

\* The write of lines 309-320 was made and committed in this step of p.
LastRunCommitted(p) ==
    /\ ex[p].pc = "fin_write"
    /\ ex'[p].pc = "close"
    /\ ex'[p].trace[Len(ex'[p].trace)] = Ev("sql", "lr_commit", "", TRUE)

\* C7: in executions one after the other, a last-run-time update that finds
\* no row of the job inserts exactly one; a later one sets the value of that
\* same row to the time stamp of its own finally block, and the job keeps one
\* row.
C7_UpsertOneRow ==
    [][\A p \in Procs :
          LastRunCommitted(p)
              => LET j      == ex[p].job_id
                     before == LastRunRows(jobData, j)
                     after  == LastRunRows(jobData', j)
                 IN /\ Cardinality(after) = 1
                    /\ \A k \in after : jobData'[k].Date = ex[p].current_time
                    /\ IF before = {}
                       THEN ex[p].row = 0
                       ELSE /\ after = before
                            /\ before = {ex[p].row}]_vars

\* C7 witness: the second execution has updated the row the first inserted.
C7_Witness ==
    /\ runs = 2
    /\ ex[1].pc = "returned"
    /\ ex[1].row # 0
    /\ LastRunRows(jobData, 1) = {ex[1].row}
    /\ jobData[ex[1].row].Date = ex[1].current_time
    /\ \E k \in Calls(ex[1], "sql", "lr_update") : ex[1].trace[k].ok

\* Positions in the trace of e of the last-run-time writes that were made.
LastRunWrites(e) ==
    {k \in DOMAIN e.trace : /\ e.trace[k].op = "sql"
                            /\ e.trace[k].arg \in {"lr_update", "lr_insert"}
                            /\ e.trace[k].ok}

\* No call of the last-run-time write (the statement, its commit) failed.
LastRunWriteUnfailed(e) ==
    \A k \in DOMAIN e.trace :
        (e.trace[k].op = "sql" /\ e.trace[k].arg \in {"lr_update", "lr_insert", "lr_commit"})
            => e.trace[k].ok

LastRunLookupUnfailed(e) ==
    \A k \in Calls(e, "sql", "lr_select") : e.trace[k].ok

\* The last-run-time write is made at most once, after every progress and
\* error event and before the connection is released.
LastRunWriteInFinally(e) ==
    /\ Cardinality(LastRunWrites(e)) <= 1
    /\ \A k \in LastRunWrites(e) :
         /\ \A n \in DOMAIN e.trace : e.trace[n].op \in {"console", "table"} => n < k
         /\ \A n \in Calls(e, "sql", "close") : k < n
         /\ e.pc \in {"close", "returned", "raised"}

\* C8 as claimed: the write is made at most once, in the finally block, and
\* exactly once when jobId > 0, a connection is held and the write does not
\* fail.
C8_Claimed ==
    \A p \in Procs :
        /\ LastRunWriteInFinally(ex[p])
        /\ (Finished(ex[p]) /\ JobAndConnection(ex[p])
              /\ LastRunWriteUnfailed(ex[p]))
              => Cardinality(LastRunWrites(ex[p])) = 1

\* C8, amended: the write is made at most once, in the finally block after
\* the last progress or error event and before the release of the connection,
\* and exactly once when jobId > 0, a connection is held and neither the
\* lookup that precedes the write nor the write fails; on both paths.
C8_LastRunWriteOnce ==
    \A p \in Procs :
        /\ LastRunWriteInFinally(ex[p])
        /\ (Finished(ex[p]) /\ JobAndConnection(ex[p])
              /\ LastRunLookupUnfailed(ex[p]) /\ LastRunWriteUnfailed(ex[p]))
              => Cardinality(LastRunWrites(ex[p])) = 1

\* C8 witness: an execution that failed in a step has made the write once.
C8_Witness ==
    \E p \in Procs :
        /\ ex[p].pc = "raised"
        /\ ex[p].caught = "StepError"
        /\ Cardinality(LastRunWrites(ex[p])) = 1

\* The settings blobs C9 is about.
NoDescriptors == {"absent", "malformed", "no_cs"}
OneDescriptor == {"no_db", "no_tables"}

\* The settings did not make execute_job raise, and a returned log holds the
\* first and the last message.
SettingsHarmless(e) ==
    /\ e.pc = "raised" => e.exc \in {"StepError", "CloseError"}
    /\ e.pc = "returned" => Contains(e.logs, MsgStarted) /\ Contains(e.logs, MsgCompleted)

BothSinksOff(e) ==
    /\ e.connection_string = "" /\ e.table_connection_string = ""
    /\ e.connection = "none" /\ e.table_client = "none"

\* C9 as claimed: for a blob that is absent, malformed, without
\* ConnectionStrings or without one of the two descriptor keys, both
\* descriptors are empty, both sinks are disabled, execute_job does not raise
\* because of the settings and its log holds both messages.
C9_Claimed ==
    \A p \in Procs :
        (ex[p].pc # "idle" /\ ex[p].blob \in NoDescriptors \cup OneDescriptor)
            => BothSinksOff(ex[p]) /\ SettingsHarmless(ex[p])

\* C9, amended: for a blob that is absent, malformed or without
\* ConnectionStrings, both descriptors are empty and both sinks disabled; for
\* a blob without one of the two descriptor keys, that descriptor is empty and
\* its sink disabled, while the other descriptor keeps its value; in each case
\* execute_job does not raise because of the settings and a returned log
\* holds 'Job started' and 'Job completed successfully!'.
C9_MissingSettingsDegrade ==
    \A p \in Procs :
        LET e == ex[p] IN
        (e.pc # "idle" /\ e.blob \in NoDescriptors \cup OneDescriptor)
            => /\ SettingsHarmless(e)
               /\ e.blob \in NoDescriptors => BothSinksOff(e)
               /\ e.blob = "no_db" => /\ e.connection_string = "" /\ e.connection = "none"
                                      /\ e.table_connection_string = TablesDescriptor
               /\ e.blob = "no_tables" => /\ e.table_connection_string = ""
                                          /\ e.table_client = "none"
                                          /\ e.connection_string = DbDescriptor

\* C9 witness: an execution given malformed JSON has returned its log.
C9_Witness ==
    \E p \in Procs :
        /\ ex[p].blob = "malformed"
        /\ ex[p].pc = "returned"
        /\ BothSinksOff(ex[p])
        /\ Contains(ex[p].logs, MsgCompleted)

WeatherErrorMsgs == {WeatherErrorMsg(w) : w \in WeatherOutcomes \ {"ok"}}

\* C10: whatever the weather fetch ends as, the step leaves the try block
\* running: nothing reaches the handler, a failed fetch is one Warning-level
\* call of log_progress, log_error has not been called, and the log of an
\* execution that returns ends with 'Job completed successfully!'.
C10_WeatherFailureNotFatal ==
    [][\A p \in Procs :
          /\ (ex[p].pc = "s_weather" /\ ex'[p].pc # "s_weather")
                => LET new     == NewCalls(p)
                       console == {k \in DOMAIN new : new[k].op = "console"}
                   IN /\ ex'[p].pc = "s_completed"
                      /\ ex'[p].caught = "none"
                      /\ Calls(ex'[p], "console", "ERROR") = {}
                      /\ Cardinality(console) = 1
                      /\ Len(ex'[p].logs) = Len(ex[p].logs) + 1
                      /\ \A k \in console :
                            /\ new[k].msg = ex'[p].logs[Len(ex'[p].logs)]
                            /\ new[k].arg = "Warning" <=> new[k].msg \in WeatherErrorMsgs
                            /\ new[k].arg = "Info" <=> new[k].msg = MsgWeather
          /\ ex'[p].pc = "returned"
                => ex'[p].logs[Len(ex'[p].logs)] = MsgCompleted]_vars

\* C10 witness: an execution whose weather fetch timed out has returned.
C10_Witness ==
    \E p \in Procs :
        /\ ex[p].pc = "returned"
        /\ Contains(ex[p].logs, WeatherErrorMsg("timeout"))
        /\ \E k \in Calls(ex[p], "console", "Warning") :
              ex[p].trace[k].msg = WeatherErrorMsg("timeout")
        /\ ex[p].logs[Len(ex[p].logs)] = MsgCompleted

\* The partition key of job j and instance i, written out.
KeyText(j, i) == ToString(j) \o "-" \o ToString(i)

\* C11: every entity in the table store carries the partition key
\* '{jobId}-{jobInstanceId}' built from the job id the logger resolved and the
\* instance id it was given, all entities of the run carry the same key, and
\* none is written by a logger whose job id is 0.
C11_PartitionKeyOfRun ==
    \A p \in Procs : ex[p].pc # "idle" =>
        \A k \in DOMAIN tableStore :
            /\ ex[p].logger_job_id > 0
            /\ tableStore[k].JobId = ex[p].logger_job_id
            /\ tableStore[k].JobInstanceId = ex[p].job_instance_id
            /\ tableStore[k].PartitionKey
                  = KeyText(ex[p].logger_job_id, ex[p].job_instance_id)
            /\ tableStore[k].PartitionKey = tableStore[1].PartitionKey

C11_Witness ==
    /\ Len(tableStore) >= 2
    /\ tableStore[1].PartitionKey = "1-2"
    /\ tableStore[Len(tableStore)].PartitionKey = "1-2"
    /\ ex[1].arg_job_id = 0

\* The logger of e could not resolve its job id.
Unresolved(e) == e.pc \notin {"idle", "logger"} /\ e.exc # "AttributeError" /\ e.logger_job_id = 0

\* No job-scoped log write: no table entity, no ErrorRecord row.
NoLogWrites(e) ==
    /\ tableStore = <<>>
    /\ \A k \in DOMAIN e.trace : e.trace[k].op # "table"
    /\ Calls(e, "sql", "insert") = {}
    /\ \A k \in DOMAIN jobData : jobData[k].Desc = LastRunDesc

\* C12: a logger whose job id stays 0 never fails the run for that reason and
\* makes no job-scoped write in either sink: no table entity, no ErrorRecord
\* row and no last-run-time row, whatever job id the caller passed.
C12_NoScopedWriteWhenUnresolved ==
    \A p \in Procs : Unresolved(ex[p]) =>
        /\ ex[p].exc \in {"none", "StepError", "CloseError"}
        /\ NoLogWrites(ex[p])
        /\ LastRunWrites(ex[p]) = {}
        /\ \A k \in DOMAIN jobData : jobData[k] = PriorStore[1]

\* The job that owns instance i in the modelled JobInstances, JobSchedule and
\* Jobs tables, 0 when the join has no row.
OwningJob(i) == IF i \in {1, 2} THEN 1 ELSE 0

\* What a call of the resolution must return for logger state e when the
\* query fails or not.
Resolved(connection, i, queryFails) ==
    IF connection = "open" /\ i > 0 /\ ~queryFails THEN OwningJob(i) ELSE 0


\* C13: _get_job_id_from_instance returns 0 when no connection is held, when
\* jobInstanceId <= 0, when the join finds no row and when the query fails,
\* and otherwise the JobId of the schedule's job; it never raises and writes
\* nothing.  Checked for the constructor's call and for direct calls.
C13_ResolutionTotal ==
    [][\A p \in Procs :
          /\ LoggerNew(p) =>
                /\ ex'[p].exc = "none"
                /\ ex'[p].logger_job_id = Resolved(ex'[p].connection, ex'[p].job_instance_id,
                                                   ex'[p].env.queryFails)
                /\ UNCHANGED <<jobData, hasError, tableStore>>
          /\ LoggerGetJobId(p) =>
                /\ ex'[p].exc = "none"
                /\ ex'[p].ret = Resolved(ex[p].connection, ex[p].job_instance_id,
                                         budget' # budget)
                /\ ex'[p].txn = ex[p].txn
                /\ UNCHANGED <<jobData, hasError, tableStore>>]_vars

C13_Witness ==
    \E p \in Procs :
        /\ ex[p].pc = "logger"
        /\ ex[p].calls = 2
        /\ ex[p].trace = <<>>
        /\ ex[p].connection = "open"
        /\ ex[p].job_instance_id = 2
        /\ ex[p].logger_job_id = 0
        /\ ex[p].ret = 1

\* C14: close() is idempotent: called with no connection held it does
\* nothing, and called again after the connection was released it neither
\* raises nor asks the driver for another release.
C14_CloseIdempotent ==
    [][\A p \in Procs :
          (LoggerClose(p) /\ ex[p].connection \in {"none", "closed"}) =>
              /\ ex'[p].exc = "none"
              /\ NewCalls(p) = <<>>
              /\ ex'[p].connection = ex[p].connection]_vars

\* The messages of the console writes of e, in order.
ConsoleMsgs(e) ==
    LET c == SelectSeq(e.trace, LAMBDA v : v.op = "console")
    IN [k \in 1..Len(c) |-> c[k].msg]

\* logs holds the messages written to the console, in order; while log_error
\* is running, all but the message it was given, which the handler appends
\* when log_error has returned (line 294).
LogsMirror(e) ==
    ConsoleMsgs(e) = IF e.pc \in {"err_insert", "err_commit", "err_table"}
                     THEN Append(e.logs, e.error_msg)
                     ELSE e.logs

\* Positions of the messages log_error was given.
ErrorCalls(e) == Calls(e, "console", "ERROR")

\* C15: the log sequence of an execution is, element for element and in
\* order, the messages given to log_progress; once a step has failed and
\* log_error was called it is those messages followed by the one message given
\* to log_error.
C15_LogMirrorsMessages ==
    \A p \in Procs : ex[p].resume # "logger" /\ ex[p].pc \notin {"idle", "logger"} =>
        /\ LogsMirror(ex[p])
        /\ ex[p].caught = "none" => ErrorCalls(ex[p]) = {}
        /\ Finished(ex[p]) /\ ex[p].caught # "none" => ErrorCalls(ex[p]) # {}
        /\ ErrorCalls(ex[p]) # {} =>
              /\ Cardinality(ErrorCalls(ex[p])) = 1
              /\ \A k \in ErrorCalls(ex[p]) :
                    /\ ex[p].trace[k].msg = "Job execution error: " \o ex[p].caught
                    /\ \A m \in DOMAIN ex[p].trace :
                          ex[p].trace[m].op = "console" => m <= k

C15_Witness ==
    \E p \in Procs :
        /\ ex[p].pc = "raised"
        /\ ex[p].caught = "StepError"
        /\ Len(ex[p].logs) = 5
        /\ ex[p].logs[1] = MsgStarted
        /\ ex[p].logs[5] = "Job execution error: StepError"

\* The ErrorRecord rows of the relational store.
ErrorRows == {k \in DOMAIN jobData : jobData[k].Desc # LastRunDesc}

\* No call the logger made on a sink failed.
NoSinkFailure(e) == \A k \in DOMAIN e.trace : e.trace[k].ok

\* C16: with a connection held, jobInstanceId > 0 and no sink failure, n calls
\* of log_error leave, when jobId > 0, exactly n committed ErrorRecord rows of
\* that job with pairwise distinct field descriptors and the instance marked
\* as errored; when jobId = 0 the instance is marked and no row is inserted.
C16_ErrorsAccumulate ==
    \A p \in Procs :
        (/\ ex[p].pc = "logger"
         /\ ex[p].connection # "none"
         /\ ex[p].job_instance_id > 0
         /\ NoSinkFailure(ex[p])) =>
            LET n == Cardinality(ErrorCalls(ex[p]))
            IN /\ n > 0 => ex[p].job_instance_id \in hasError
               /\ n = 0 => hasError = {}
               /\ ex[p].txn = <<>>
               /\ IF ex[p].logger_job_id > 0
                  THEN /\ Cardinality(ErrorRows) = n
                       /\ Len(jobData) = n
                       /\ \A k \in ErrorRows : jobData[k].JobId = ex[p].logger_job_id
                       /\ \A k, m \in ErrorRows : k # m => jobData[k].Desc # jobData[m].Desc
                  ELSE jobData = <<>>

C16_Witness ==
    \E p \in Procs :
        /\ ex[p].pc = "logger"
        /\ ex[p].connection = "open"
        /\ ex[p].logger_job_id = 1
        /\ NoSinkFailure(ex[p])
        /\ Cardinality(ErrorCalls(ex[p])) = 3
        /\ Cardinality(ErrorRows) = 3
        /\ ex[p].job_instance_id \in hasError

\* Positions in the trace of e of the calls made on sink op.
SinkCalls(e, op) == {k \in DOMAIN e.trace : e.trace[k].op = op}

\* C17: when the relational store or the table store is unreachable while the
\* logger is constructed, the constructor does not raise and the run is not
\* failed by it; the unreachable sink stays absent and is never written to,
\* and the other sink and the console still receive every event: the table
\* store every progress and error event, the relational store every error
\* event.
C17_ConnectivityFailureIsolated ==
    \A p \in Procs : ex[p].resume # "logger" /\ ex[p].pc \notin {"idle", "logger"} =>
        /\ ex[p].env.connectFails =>
              /\ ex[p].connection = "none"
              /\ SinkCalls(ex[p], "sql") = {}
              /\ ex[p].exc \in {"none", "StepError"}
              /\ LogsMirror(ex[p])
              /\ (ex[p].table_client = "open" /\ ex[p].pc # "err_table") =>
                    Cardinality(SinkCalls(ex[p], "table"))
                        = Cardinality(SinkCalls(ex[p], "console"))
        /\ ex[p].env.tableFails =>
              /\ ex[p].table_client = "none"
              /\ SinkCalls(ex[p], "table") = {}
              /\ ex[p].exc \in {"none", "StepError", "CloseError"}
              /\ LogsMirror(ex[p])
              /\ (ex[p].connection # "none" /\ ex[p].job_instance_id > 0) =>
                    Cardinality(Calls(ex[p], "sql", "flag"))
                        = Cardinality(ErrorCalls(ex[p]))

\* C18: when the run wrote an entity, the key announced by the 'Log partition
\* key' progress message is the PartitionKey of the entities written, also
\* when the caller passed a positive job id other than the resolved one.
C18_AnnouncedKeyIsEntityKey ==
    \A p \in Procs : \A k \in DOMAIN tableStore :
        \A j \in JobIdArgs, i \in InstanceIdArgs :
            Contains(ex[p].logs, "Log partition key: " \o ToString(j) \o "-" \o ToString(i))
                => tableStore[k].PartitionKey = ToString(j) \o "-" \o ToString(i)

\* A statement of log_error's relational block after the flag update failed.
ErrorRecordWriteFailed(e) ==
    \E k \in DOMAIN e.trace :
        /\ e.trace[k].op = "sql"
        /\ e.trace[k].arg \in {"insert", "commit"}
        /\ ~e.trace[k].ok

\* C19: the relational writes of a log_error call are all-or-nothing: when
\* jobId > 0 and the ErrorRecord insert or the commit of the call failed, no
\* later commit of the run makes the call's error-flag update durable.
C19_LogErrorAllOrNothing ==
    \A p \in Procs :
        (ex[p].logger_job_id > 0 /\ ErrorRecordWriteFailed(ex[p]))
            => ex[p].job_instance_id \notin hasError

====
